---- MODULE Spec2Model ----
(***************************************************************************)
(* Model of the EAA compliance pipeline: mapLighthouseToEAA (the Mapper,   *)
(* util/score_logic), the calculate-score capability (the Scorer,          *)
(* index.ts), the report step process-results, run-comparison and          *)
(* create_task_sequence (index.ts).                                        *)
(***************************************************************************)
EXTENDS Integers, Sequences, FiniteSets, TLC

VARIABLES
    heap,            \* requirement objects, by address (1..Len(heap))
    eaaGuidelines,   \* the caller's checklist: directive + addresses of its requirements
    lighthouseJson,  \* the findings map of the last call, in Object.entries order
    inputAtCall,     \* value of the caller's checklist when the call was made
    mappedResults,   \* the returned checklist: directive + addresses
    statusCounts,    \* per-requirement tallies of the last call
    auditFix,        \* requirement id -> finding, of the last call
    outcome,         \* "idle" | "returned" | "threw"
    modified,        \* the caller has written to the returned checklist
    memo,            \* an earlier call: its inputs and what it produced
    entries,         \* args.mappedResults of calculate-score
    finalScore,      \* the score calculate-score returned
    scorePc,         \* "request" | "done"
    complianceData,  \* args.complianceData of process-results
    report,          \* what process-results produced
    comparison,      \* run-comparison: the regulations it fetched and how it ended
    tasks            \* create_task_sequence: its position and the tasks created

vars == <<heap, eaaGuidelines, lighthouseJson, inputAtCall, mappedResults,
          statusCounts, auditFix, outcome, modified, memo,
          entries, finalScore, scorePc,
          complianceData, report, comparison, tasks>>

agentVars == <<complianceData, report, comparison, tasks>>

mapperVars == <<heap, eaaGuidelines, lighthouseJson, inputAtCall, mappedResults,
                statusCounts, auditFix, outcome, modified, memo>>

scorerVars == <<entries, finalScore, scorePc>>

----------------------------------------------------------------------------
(* Bounds *)

MaxReqs == 2
MaxFindings == 2
MaxRepeatFindings == 1
MaxEntries == 7

----------------------------------------------------------------------------
(* Data: requirements, checklists, findings *)

Range(s) == {s[i] : i \in 1..Len(s)}

Statuses == {"pending", "compliant", "partially_compliant", "non_compliant", "exempted"}

\* Entries of the static checklist template.
TemplateRequirement(id) ==
    CASE id = "A1.1" ->
           [requirement_id |-> "A1.1",
            description |-> "Websites must be perceivable, operable, understandable, and robust.",
            category |-> "Web Accessibility", criticality |-> "HIGH",
            legal_reference |-> "Annex I, Section I", status |-> "pending",
            exemptible |-> FALSE]
      [] id = "A1.2" ->
           [requirement_id |-> "A1.2",
            description |-> "Mobile applications must comply with accessibility standards similar to websites.",
            category |-> "Mobile Accessibility", criticality |-> "HIGH",
            legal_reference |-> "Annex I, Section II", status |-> "pending",
            exemptible |-> FALSE]
      [] id = "A3.1" ->
           [requirement_id |-> "A3.1",
            description |-> "User manuals must be available in accessible formats (e.g., large print, digital screen-reader compatible).",
            category |-> "Information & Documentation", criticality |-> "MEDIUM",
            legal_reference |-> "Annex I, Section IV", status |-> "pending",
            exemptible |-> TRUE]

TemplateDirective == "EU 2019/882"

\* Requirement ids the model draws checklists from: two the lookup table
\* maps to, one it does not.
ReqIds == {"A1.1", "A1.2", "A3.1"}

\* Statuses a checklist may carry when it is handed to the Mapper.
InputStatuses == {"pending", "compliant"}

Requirements ==
    {[TemplateRequirement(id) EXCEPT !.status = s] : id \in ReqIds, s \in InputStatuses}

\* Sequences of at most n requirements with pairwise distinct ids.
RECURSIVE RequirementLists(_)
RequirementLists(n) ==
    IF n = 0 THEN {<<>>}
    ELSE LET shorter == RequirementLists(n - 1)
         IN  shorter \cup
             {Append(l, r) : l \in {x \in shorter : Len(x) = n - 1}, r \in Requirements}

DistinctIds(l) ==
    \A i, j \in 1..Len(l) : i # j => l[i].requirement_id # l[j].requirement_id

Checklists(n) == {l \in RequirementLists(n) : DistinctIds(l)}

\* const lighthouseToEAAMapping
lighthouseToEAAMapping ==
    [a \in {"color-contrast", "image-alt", "video-caption", "object-alt",
            "aria-allowed-attr", "aria-required-attr", "aria-valid-attr-value",
            "aria-roles", "duplicate-id-aria",
            "meta-viewport", "target-size", "focus-traps",
            "interactive-element-affordance",
            "link-name", "button-name", "form-field-multiple-labels", "label",
            "html-has-lang"} |->
        IF a \in {"meta-viewport", "target-size", "focus-traps",
                  "interactive-element-affordance"} THEN <<"A1.2">>
        ELSE IF a \in {"link-name", "button-name", "form-field-multiple-labels",
                       "label", "html-has-lang"} THEN <<"A6.1">>
        ELSE <<"A1.1">>]

\* The lookup table is an object literal: a property read that misses its own
\* keys falls through to Object.prototype.
ObjectPrototypeKeys ==
    {"constructor", "toString", "toLocaleString", "valueOf", "hasOwnProperty",
     "isPrototypeOf", "propertyIsEnumerable", "__proto__"}

\* lighthouseToEAAMapping[auditId]
LookupEaaIds(auditId) ==
    IF auditId \in DOMAIN lighthouseToEAAMapping
    THEN [kind |-> "array", ids |-> lighthouseToEAAMapping[auditId]]
    ELSE IF auditId \in ObjectPrototypeKeys
    THEN [kind |-> "inherited", ids |-> <<>>]
    ELSE [kind |-> "undefined", ids |-> <<>>]

\* Audit ids the model draws findings from.
AuditIds == {"color-contrast", "image-alt", "meta-viewport", "unknown-audit", "constructor"}

\* A finding's score: 0, 1, null, or no score field at all.
ScoreValues == {"0", "1", "null", "undefined"}

\* A findings-map value that is null instead of an audit object.
NullAudit == [isNull |-> TRUE]

Audits(auditId) ==
    {[id |-> auditId, score |-> s] : s \in ScoreValues} \cup {NullAudit}

FindingEntries == UNION {{[key |-> a, audit |-> v] : v \in Audits(a)} : a \in AuditIds}

\* Lists of at most n entries drawn from E.
RECURSIVE EntryLists(_, _)
EntryLists(E, n) ==
    IF n = 0 THEN {<<>>}
    ELSE LET shorter == EntryLists(E, n - 1)
         IN  shorter \cup
             {Append(l, e) : l \in {x \in shorter : Len(x) = n - 1}, e \in E}

DistinctKeys(l) == \A i, j \in 1..Len(l) : i # j => l[i].key # l[j].key

\* Findings maps of at most n entries drawn from E, as Object.entries lists
\* them: keys are pairwise distinct, order is insertion order.
FindingsMaps(E, n) == {l \in EntryLists(E, n) : DistinctKeys(l)}

----------------------------------------------------------------------------
(* JSON.parse(JSON.stringify(eaaGuidelines)) *)

JsonString(k, s) == [key |-> k, type |-> "string", text |-> s]
JsonBoolean(k, b) == [key |-> k, type |-> "literal", text |-> IF b THEN "true" ELSE "false"]

\* JSON.stringify of one requirement object: its members in key order.
StringifyRequirement(r) ==
    << JsonString("requirement_id", r.requirement_id),
       JsonString("description", r.description),
       JsonString("category", r.category),
       JsonString("criticality", r.criticality),
       JsonString("legal_reference", r.legal_reference),
       JsonString("status", r.status),
       JsonBoolean("exemptible", r.exemptible) >>

\* JSON.stringify of the checklist, read through its references.
JSONstringify(h, g) ==
    [directive |-> JsonString("directive", g.directive),
     requirements |-> [i \in 1..Len(g.requirements) |->
                          StringifyRequirement(h[g.requirements[i]])]]

Member(obj, k) == CHOOSE m \in Range(obj) : m.key = k

StringOf(m) == m.text
BooleanOf(m) == m.text = "true"

ParseRequirementDroppingFlag(obj) ==
    [requirement_id |-> StringOf(Member(obj, "requirement_id")),
     description |-> StringOf(Member(obj, "description")),
     category |-> StringOf(Member(obj, "category")),
     criticality |-> StringOf(Member(obj, "criticality")),
     legal_reference |-> StringOf(Member(obj, "legal_reference")),
     status |-> StringOf(Member(obj, "status")),
     exemptible |-> FALSE]

\* JSON.parse of one requirement object.
ParseRequirement(obj) ==
    [requirement_id |-> StringOf(Member(obj, "requirement_id")),
     description |-> StringOf(Member(obj, "description")),
     category |-> StringOf(Member(obj, "category")),
     criticality |-> StringOf(Member(obj, "criticality")),
     legal_reference |-> StringOf(Member(obj, "legal_reference")),
     status |-> StringOf(Member(obj, "status")),
     exemptible |-> BooleanOf(Member(obj, "exemptible"))]

\* JSON.parse of the checklist text: a directive and fresh requirement values.
JSONparse(text) ==
    [directive |-> StringOf(text.directive),
     requirements |-> [i \in 1..Len(text.requirements) |->
                          ParseRequirement(text.requirements[i])]]

\* A copy that shares the requirement objects of the original.
AliasAddrs(h, g) == g.requirements

\* Where the parsed requirement objects live: newly allocated, after
\* everything already on the heap.
CloneAddrs(h, g) == [i \in 1..Len(g.requirements) |-> Len(h) + i]

\* The heap once the values vals are stored at addrs.
Store(h, addrs, vals) ==
    LET top == IF Len(addrs) > 0 /\ addrs[Len(addrs)] > Len(h)
               THEN addrs[Len(addrs)] ELSE Len(h)
    IN  [a \in 1..top |->
            IF \E i \in 1..Len(addrs) : addrs[i] = a
            THEN vals[CHOOSE i \in 1..Len(addrs) : addrs[i] = a]
            ELSE h[a]]

\* The checklist value behind a checklist reference.
Deref(h, g) ==
    [directive |-> g.directive,
     requirements |-> [i \in 1..Len(g.requirements) |-> h[g.requirements[i]]]]

----------------------------------------------------------------------------
(* mapLighthouseToEAA *)

ZeroCounts == [compliant |-> 0, non_compliant |-> 0, exempted |-> 0]

EmptyMap == [x \in {} |-> ZeroCounts]

\* Tallies left behind by the previous call.
StaleStatusCounts == statusCounts

\* const statusCounts = {}
NewStatusCounts == EmptyMap

\* const auditFix = {}
NewAuditFix == EmptyMap

Put(f, k, v) == [x \in DOMAIN f \cup {k} |-> IF x = k THEN v ELSE f[x]]

KeepFirstFix(fix, eaaId, audit) ==
    IF eaaId \in DOMAIN fix THEN fix ELSE Put(fix, eaaId, audit)

\* auditFix[eaaId] = audit
RecordFix(fix, eaaId, audit) == Put(fix, eaaId, audit)

\* The body with the audit recorded whatever its score.
TallyRecordingEveryAudit(st, eaaId, audit) ==
    LET sc == IF eaaId \in DOMAIN st.statusCounts
              THEN st.statusCounts
              ELSE Put(st.statusCounts, eaaId, ZeroCounts)
        field == IF audit.score = "1" THEN "compliant"
                 ELSE IF audit.score = "0" THEN "non_compliant" ELSE "exempted"
    IN  IF audit = NullAudit
        THEN [st EXCEPT !.statusCounts = sc, !.threw = TRUE]
        ELSE [st EXCEPT !.statusCounts =
                          Put(sc, eaaId, [sc[eaaId] EXCEPT ![field] = @ + 1]),
                        !.auditFix = RecordFix(st.auditFix, eaaId, audit)]

\* The body of eaaIds.forEach for one requirement id. Reading .score of a
\* null audit throws after the counter was created.
TallyOne(st, eaaId, audit) ==
    LET sc == IF eaaId \in DOMAIN st.statusCounts
              THEN st.statusCounts
              ELSE Put(st.statusCounts, eaaId, ZeroCounts)
    IN  IF audit = NullAudit
        THEN [st EXCEPT !.statusCounts = sc, !.threw = TRUE]
        ELSE IF audit.score = "1"
        THEN [st EXCEPT !.statusCounts =
                 Put(sc, eaaId, [sc[eaaId] EXCEPT !.compliant = @ + 1])]
        ELSE IF audit.score = "0"
        THEN [st EXCEPT !.statusCounts =
                          Put(sc, eaaId, [sc[eaaId] EXCEPT !.non_compliant = @ + 1]),
                        !.auditFix = RecordFix(st.auditFix, eaaId, audit)]
        ELSE [st EXCEPT !.statusCounts =
                 Put(sc, eaaId, [sc[eaaId] EXCEPT !.exempted = @ + 1])]

\* eaaIds.forEach(...)
RECURSIVE ForEachEaaId(_, _, _)
ForEachEaaId(st, eaaIds, audit) ==
    IF st.threw \/ eaaIds = <<>> THEN st
    ELSE ForEachEaaId(TallyOne(st, Head(eaaIds), audit), Tail(eaaIds), audit)

\* The body of the loop over Object.entries(lighthouseJson) for one entry.
\* An inherited property is truthy but has no forEach: the call throws.
TallyEntry(st, e) ==
    LET eaaIds == LookupEaaIds(e.key)
    IN  CASE eaaIds.kind = "undefined" -> st
          [] eaaIds.kind = "inherited" -> [st EXCEPT !.threw = TRUE]
          [] eaaIds.kind = "array" -> ForEachEaaId(st, eaaIds.ids, e.audit)

\* Object.entries(lighthouseJson).forEach(...)
RECURSIVE ForEachAudit(_, _)
ForEachAudit(st, es) ==
    IF st.threw \/ es = <<>> THEN st
    ELSE ForEachAudit(TallyEntry(st, Head(es)), Tail(es))

NonCompliantFirst(counts) ==
    IF counts.non_compliant > 0 THEN "non_compliant"
    ELSE IF counts.non_compliant > 0 /\ counts.compliant > 0 THEN "partially_compliant"
    ELSE IF counts.compliant > 0 THEN "compliant"
    ELSE "exempted"

\* The status a tallied requirement gets.
StatusFromCounts(counts) ==
    IF counts.non_compliant > 0 /\ counts.compliant > 0 THEN "partially_compliant"
    ELSE IF counts.non_compliant > 0 THEN "non_compliant"
    ELSE IF counts.compliant > 0 THEN "compliant"
    ELSE "exempted"

ResetUntallied(requirement, sc) ==
    IF requirement.requirement_id \in DOMAIN sc
    THEN [requirement EXCEPT !.status = StatusFromCounts(sc[requirement.requirement_id])]
    ELSE [requirement EXCEPT !.status = "pending"]

\* The body of mappedResults.requirements.forEach for one requirement.
FinalRequirement(requirement, sc) ==
    IF requirement.requirement_id \in DOMAIN sc
    THEN [requirement EXCEPT !.status = StatusFromCounts(sc[requirement.requirement_id])]
    ELSE requirement

\* One call of mapLighthouseToEAA on heap h: the heap afterwards, what the
\* call left in its locals, and what it returned (if it returned).
MapCall(h, findings, g) ==
    LET parsed == JSONparse(JSONstringify(h, g))
        addrs  == CloneAddrs(h, g)
        h1     == Store(h, addrs, parsed.requirements)
        st     == ForEachAudit([statusCounts |-> NewStatusCounts,
                                auditFix |-> NewAuditFix,
                                threw |-> FALSE], findings)
        h2     == Store(h1, addrs,
                        [i \in 1..Len(addrs) |->
                            FinalRequirement(h1[addrs[i]], st.statusCounts)])
    IN  IF st.threw
        THEN [heap |-> h1, statusCounts |-> st.statusCounts, auditFix |-> st.auditFix,
              outcome |-> "threw",
              mappedResults |-> [directive |-> "", requirements |-> <<>>]]
        ELSE [heap |-> h2, statusCounts |-> st.statusCounts, auditFix |-> st.auditFix,
              outcome |-> "returned",
              mappedResults |-> [directive |-> parsed.directive, requirements |-> addrs]]

----------------------------------------------------------------------------
(* The Mapper called once, and its caller *)

NoChecklist == [directive |-> "", requirements |-> <<>>]

NoMemo == [set |-> FALSE, between |-> FALSE, findings |-> <<>>, outcome |-> "idle",
           checklist |-> NoChecklist, auditFix |-> EmptyMap]

ScorerIdle ==
    /\ entries = <<>>
    /\ finalScore = 0
    /\ scorePc = "idle"

NoSummary == [partially_compliant |-> <<>>, compliant |-> <<>>,
              pending_high_criticality |-> <<>>, pending_medium_criticality |-> <<>>]

NoReport == [outcome |-> "idle", returned |-> "", processCalls |-> 0, prompt |-> <<>>,
             mappedResults |-> NoChecklist,
             summary |-> NoSummary, actionable_insights |-> <<>>]

NoComplianceData == [shape |-> "object", requirementsShape |-> "array",
                     mappedResults |-> NoChecklist, auditFix |-> EmptyMap]

NoOutput == [mappedResults |-> NoChecklist, auditFix |-> EmptyMap]

NoComparison == [pc |-> "idle", shape |-> "array", regulations |-> <<>>, audit |-> <<>>,
                 error |-> "", returned |-> FALSE, output |-> NoOutput]

NoTasks == [pc |-> "idle", workspaceId |-> [nan |-> FALSE, value |-> 0],
            created |-> <<>>, error |-> "", returned |-> ""]

ReportIdle ==
    /\ complianceData = NoComplianceData
    /\ report = NoReport

ComparisonIdle == comparison = NoComparison

TasksIdle == tasks = NoTasks

\* A caller holding a checklist built from the template, no call made yet.
MapperInit(lists) ==
    /\ \E l \in lists :
          /\ heap = l
          /\ eaaGuidelines = [directive |-> TemplateDirective,
                              requirements |-> [i \in 1..Len(l) |-> i]]
          /\ inputAtCall = [directive |-> TemplateDirective, requirements |-> l]
    /\ lighthouseJson = <<>>
    /\ mappedResults = NoChecklist
    /\ statusCounts = EmptyMap
    /\ auditFix = EmptyMap
    /\ outcome = "idle"
    /\ modified = FALSE
    /\ memo = NoMemo

Init ==
    /\ MapperInit(Checklists(MaxReqs))
    /\ ScorerIdle
    /\ ReportIdle
    /\ ComparisonIdle
    /\ TasksIdle

\* The objects the caller still holds before a call: its own checklist.
CallerHeap == SubSeq(heap, 1, Len(eaaGuidelines.requirements))

\* mapLighthouseToEAA(findings, eaaGuidelines)
Call(findings) ==
    LET c == MapCall(CallerHeap, findings, eaaGuidelines)
    IN  /\ lighthouseJson' = findings
        /\ inputAtCall' = Deref(heap, eaaGuidelines)
        /\ heap' = c.heap
        /\ statusCounts' = c.statusCounts
        /\ auditFix' = c.auditFix
        /\ outcome' = c.outcome
        /\ mappedResults' = c.mappedResults
        /\ modified' = FALSE
        /\ UNCHANGED eaaGuidelines

Map ==
    /\ outcome = "idle"
    /\ \E findings \in FindingsMaps(FindingEntries, MaxFindings) : Call(findings)
    /\ UNCHANGED <<memo, scorerVars, agentVars>>

\* Statuses the caller writes.
CallerStatuses == {"compliant", "non_compliant"}

\* The caller writes a status into the checklist it got back.
CallerModify ==
    /\ outcome = "returned"
    /\ ~modified
    /\ \E i \in 1..Len(mappedResults.requirements), s \in CallerStatuses :
          LET a == mappedResults.requirements[i]
          IN  /\ heap[a].status # s
              /\ heap' = [heap EXCEPT ![a].status = s]
    /\ modified' = TRUE
    /\ UNCHANGED <<eaaGuidelines, lighthouseJson, inputAtCall, mappedResults,
                   statusCounts, auditFix, outcome, memo, scorerVars, agentVars>>

Next == Map \/ CallerModify

Spec == Init /\ [][Next]_vars

----------------------------------------------------------------------------
(* The Mapper called repeatedly *)

\* What a call produced, as values.
Produced(h, res, fix, out) ==
    [outcome |-> out,
     checklist |-> IF out = "returned" THEN Deref(h, res) ELSE NoChecklist,
     auditFix |-> IF out = "returned" THEN fix ELSE EmptyMap]

\* Checklists of the repeated-call runs: the template's first entries, as
\* loaded and after an earlier pass.
RepeatChecklists ==
    { <<TemplateRequirement("A1.1"), TemplateRequirement("A1.2")>>,
      <<[TemplateRequirement("A1.1") EXCEPT !.status = "non_compliant"],
        TemplateRequirement("A3.1")>> }

\* Findings of the repeated-call runs: the two audits of requirement A1.1.
RepeatEntries == {e \in FindingEntries : e.key \in {"color-contrast", "image-alt"}}

RepeatInit ==
    /\ MapperInit(RepeatChecklists)
    /\ ScorerIdle
    /\ ReportIdle
    /\ ComparisonIdle
    /\ TasksIdle

\* A call; the first call of a run is remembered, and so is whether a call
\* with other findings followed it.
RepeatCall ==
    /\ \E findings \in FindingsMaps(RepeatEntries, MaxRepeatFindings) :
          /\ Call(findings)
          /\ memo' = IF memo.set
                     THEN [memo EXCEPT !.between = @ \/ findings # memo.findings]
                     ELSE LET p == Produced(heap', mappedResults', auditFix', outcome')
                          IN  [set |-> TRUE, between |-> FALSE, findings |-> findings,
                               outcome |-> p.outcome, checklist |-> p.checklist,
                               auditFix |-> p.auditFix]
    /\ UNCHANGED <<scorerVars, agentVars>>

RepeatNext == RepeatCall

RepeatSpec == RepeatInit /\ [][RepeatNext]_vars

----------------------------------------------------------------------------
(* Double-precision arithmetic of the Scorer *)

\* A positive double is its 53 significand bits, most significant first
\* (bits[1] = 1), and the binary exponent of bits[1]; zero is apart.
DoubleMantissaBits == 53

DoubleZero == [zero |-> TRUE, bits |-> <<>>, exp |-> 0]

\* Scale a / b, a > 0, b > 0, so that b <= a < 2b: a / b = (a' / b') * 2^exp.
RECURSIVE Normalize(_, _, _)
Normalize(a, b, e) ==
    IF a < b THEN Normalize(2 * a, b, e - 1)
    ELSE IF a >= 2 * b THEN Normalize(a, 2 * b, e + 1)
    ELSE [a |-> a, b |-> b, exp |-> e]

\* k more quotient bits of r / b by long division, r < 2b; rem is twice the
\* remainder left over.
RECURSIVE QuotientBits(_, _, _, _)
QuotientBits(r, b, k, acc) ==
    IF k = 0 THEN [bits |-> acc, rem |-> r]
    ELSE LET bit == IF r >= b THEN 1 ELSE 0
         IN  QuotientBits(2 * (r - bit * b), b, k - 1, Append(acc, bit))

\* bits + 1, from the least significant bit; carry is set when every bit was 1.
RECURSIVE Increment(_, _)
Increment(bits, i) ==
    IF i = 0 THEN [bits |-> bits, carry |-> TRUE]
    ELSE IF bits[i] = 0 THEN [bits |-> [bits EXCEPT ![i] = 1], carry |-> FALSE]
    ELSE Increment([bits EXCEPT ![i] = 0], i - 1)

\* Round to nearest, ties to even: up when the discarded part is more than
\* half a unit in the last place, or exactly half and the last bit is 1.
RoundToNearestEven(bits, e, discarded, half) ==
    IF discarded > half \/ (discarded = half /\ bits[Len(bits)] = 1)
    THEN LET inc == Increment(bits, Len(bits))
         IN  IF inc.carry
             THEN [zero |-> FALSE, exp |-> e + 1,
                   bits |-> [i \in 1..Len(bits) |-> IF i = 1 THEN 1 ELSE 0]]
             ELSE [zero |-> FALSE, exp |-> e, bits |-> inc.bits]
    ELSE [zero |-> FALSE, exp |-> e, bits |-> bits]

\* The double nearest to a / b, for integers a >= 0, b > 0.
DoubleDivide(a, b) ==
    IF a = 0 THEN DoubleZero
    ELSE LET n == Normalize(a, b, 0)
             q == QuotientBits(n.a, n.b, DoubleMantissaBits, <<>>)
         IN  RoundToNearestEven(q.bits, n.exp, q.rem, n.b)

RECURSIVE ValueOf(_)
ValueOf(bits) ==
    IF bits = <<>> THEN 0
    ELSE 2 * ValueOf(SubSeq(bits, 1, Len(bits) - 1)) + bits[Len(bits)]

RECURSIVE Power2(_)
Power2(n) == IF n = 0 THEN 1 ELSE 2 * Power2(n - 1)

\* The low width bits of n, most significant first.
BitsOf(n, width) == [i \in 1..width |-> (n \div Power2(width - i)) % 2]

\* bits * 100, from the least significant bit: the low Len(bits) bits of the
\* product and the carry out of them.
RECURSIVE TimesHundred(_, _, _, _)
TimesHundred(bits, i, carry, low) ==
    IF i = 0 THEN [low |-> low, carry |-> carry]
    ELSE LET t == bits[i] * 100 + carry
         IN  IF t % 2 = 0
             THEN TimesHundred(bits, i - 1, t \div 2, <<0>> \o low)
             ELSE TimesHundred(bits, i - 1, t \div 2, <<1>> \o low)

\* bits from its first 1 on (bits holds a 1).
StripLeadingZeros(bits) ==
    LET first == CHOOSE i \in 1..Len(bits) :
                     bits[i] = 1 /\ \A j \in 1..(i - 1) : bits[j] = 0
    IN  SubSeq(bits, first, Len(bits))

\* The double nearest to x * 100.
DoubleTimesHundred(x) ==
    IF x.zero THEN DoubleZero
    ELSE LET p    == TimesHundred(x.bits, Len(x.bits), 0, <<>>)
             full == StripLeadingZeros(BitsOf(p.carry, 7) \o p.low)
             drop == Len(full) - DoubleMantissaBits
         IN  RoundToNearestEven(SubSeq(full, 1, DoubleMantissaBits),
                                x.exp + drop,
                                ValueOf(SubSeq(full, DoubleMantissaBits + 1, Len(full))),
                                Power2(drop - 1))

\* Math.round of a double x >= 0: the integer part, plus one when the
\* fraction is at least one half.
MathRound(x) ==
    IF x.zero \/ x.exp < -1 THEN 0
    ELSE IF x.exp = -1 THEN 1
    ELSE ValueOf(SubSeq(x.bits, 1, x.exp + 1)) + x.bits[x.exp + 2]

----------------------------------------------------------------------------
(* calculate-score *)

Criticalities == {"HIGH", "MEDIUM", "LOW"}

\* const criticalityMultiplier
criticalityMultiplier(criticality) ==
    CASE criticality = "HIGH" -> 3
      [] criticality = "MEDIUM" -> 2
      [] criticality = "LOW" -> 1

\* The switch on status, in halves: twice the score of an entry.
TwiceScore(status) ==
    CASE status = "compliant" -> 2
      [] status = "partially_compliant" -> 1
      [] status = "non_compliant" -> 0
      [] status = "exempted" -> 2

UnweightedAddend(criticality) == 1

\* maxPossibleScore += multiplier
MaxAddend(criticality) == criticalityMultiplier(criticality)

\* The forEach over args.mappedResults. totalWeightedScore is kept in halves:
\* every addend is a multiple of 0.5 and the sums are exact doubles.
RECURSIVE Accumulate(_, _)
Accumulate(acc, es) ==
    IF es = <<>> THEN acc
    ELSE LET e == Head(es)
         IN  IF e.status = "pending"
             THEN Accumulate(acc, Tail(es))
             ELSE Accumulate(
                    [twiceTotalWeightedScore |->
                         acc.twiceTotalWeightedScore
                           + TwiceScore(e.status) * criticalityMultiplier(e.criticality),
                     maxPossibleScore |-> acc.maxPossibleScore + MaxAddend(e.criticality)],
                    Tail(es))

Totals(es) == Accumulate([twiceTotalWeightedScore |-> 0, maxPossibleScore |-> 0], es)

\* Math.round(maxPossibleScore > 0 ? (totalWeightedScore / maxPossibleScore) * 100 : 0)
FinalScore(es) ==
    LET t == Totals(es)
    IN  IF t.maxPossibleScore > 0
        THEN MathRound(DoubleTimesHundred(
                 DoubleDivide(t.twiceTotalWeightedScore, 2 * t.maxPossibleScore)))
        ELSE 0

\* Entries the schema of calculate-score admits (status and criticality are
\* all the handler reads).
ScoreEntries == [status : Statuses, criticality : Criticalities]

\* Requests are built in one order of criticality and status: the totals do
\* not depend on the order of the entries.
Rank(e) ==
    5 * (criticalityMultiplier(e.criticality) - 1) +
    (CASE e.status = "pending" -> 0
       [] e.status = "non_compliant" -> 1
       [] e.status = "partially_compliant" -> 2
       [] e.status = "compliant" -> 3
       [] e.status = "exempted" -> 4)

MapperIdle == MapperInit({<<>>})

ScoreInit ==
    /\ MapperIdle
    /\ entries = <<>>
    /\ finalScore = 0
    /\ scorePc = "request"
    /\ ReportIdle
    /\ ComparisonIdle
    /\ TasksIdle

\* The caller adds an entry to the request.
AddEntry ==
    /\ scorePc = "request"
    /\ Len(entries) < MaxEntries
    /\ \E e \in ScoreEntries :
          /\ entries # <<>> => Rank(entries[Len(entries)]) <= Rank(e)
          /\ entries' = Append(entries, e)
    /\ UNCHANGED <<finalScore, scorePc, mapperVars, agentVars>>

\* calculate-score.run
CalculateScore ==
    /\ scorePc = "request"
    /\ finalScore' = FinalScore(entries)
    /\ scorePc' = "done"
    /\ UNCHANGED <<entries, mapperVars, agentVars>>

ScoreNext == AddEntry \/ CalculateScore

ScoreSpec == ScoreInit /\ [][ScoreNext]_vars

----------------------------------------------------------------------------
(* Claims about the Mapper *)

\* Requirement ids the lookup table can name.
MappedReqIds == UNION {Range(lighthouseToEAAMapping[a]) : a \in DOMAIN lighthouseToEAAMapping}

\* Entry i of the findings map is an audit object under an id the lookup
\* table maps to requirement id.
MapsTo(findings, i, id) ==
    /\ findings[i].key \in DOMAIN lighthouseToEAAMapping
    /\ id \in Range(lighthouseToEAAMapping[findings[i].key])

HasScore(findings, id, score) ==
    \E i \in 1..Len(findings) :
        MapsTo(findings, i, id) /\ findings[i].audit.score = score

Tallied(findings, id) == \E i \in 1..Len(findings) : MapsTo(findings, i, id)

\* The returned requirement objects, in order.
Returned == Deref(heap, mappedResults).requirements

\* C1: after a call that returned, every requirement with at least one tally
\* has status partially_compliant if it has a score-0 and a score-1 finding,
\* else non_compliant if it has a score-0 finding, else compliant if it has a
\* score-1 finding, else exempted.
C1_StatusByPriority ==
    (outcome = "returned" /\ ~modified) =>
        \A i \in 1..Len(Returned) :
            LET id == Returned[i].requirement_id
            IN  Tallied(lighthouseJson, id) =>
                    Returned[i].status =
                        IF HasScore(lighthouseJson, id, "0") /\ HasScore(lighthouseJson, id, "1")
                        THEN "partially_compliant"
                        ELSE IF HasScore(lighthouseJson, id, "0") THEN "non_compliant"
                        ELSE IF HasScore(lighthouseJson, id, "1") THEN "compliant"
                        ELSE "exempted"

C1_Witness ==
    /\ outcome = "returned" /\ ~modified
    /\ \E i \in 1..Len(Returned) :
          /\ HasScore(lighthouseJson, Returned[i].requirement_id, "0")
          /\ HasScore(lighthouseJson, Returned[i].requirement_id, "1")
          /\ Returned[i].status = "partially_compliant"

C3_InputNotMutated ==
    (outcome # "idle") =>
        /\ Deref(heap, eaaGuidelines) = inputAtCall
        /\ Range(mappedResults.requirements) \cap Range(eaaGuidelines.requirements) = {}

C3_Witness ==
    /\ outcome = "returned" /\ modified
    /\ \E i \in 1..Len(Returned) :
          /\ Tallied(lighthouseJson, Returned[i].requirement_id)
          /\ Returned[i].status # inputAtCall.requirements[i].status

\* C4: the returned checklist has as many requirements as the input, in the
\* same order, and each differs from its input at most in status; the
\* directive label is unchanged.
C4_OnlyStatusChanges ==
    (outcome = "returned") =>
        /\ mappedResults.directive = inputAtCall.directive
        /\ Len(Returned) = Len(inputAtCall.requirements)
        /\ \A i \in 1..Len(Returned) :
              [Returned[i] EXCEPT !.status = inputAtCall.requirements[i].status]
                  = inputAtCall.requirements[i]

C4_Witness ==
    /\ outcome = "returned" /\ ~modified
    /\ Len(Returned) >= 2
    /\ \E i \in 1..Len(Returned) :
          /\ Returned[i].exemptible
          /\ Returned[i].requirement_id = inputAtCall.requirements[i].requirement_id
    /\ \E i \in 1..Len(Returned) :
          Returned[i].status # inputAtCall.requirements[i].status

\* Positions of the score-0 findings that map to requirement id.
ZeroPositions(findings, id) ==
    {i \in 1..Len(findings) : MapsTo(findings, i, id) /\ findings[i].audit.score = "0"}

Last(S) == CHOOSE i \in S : \A j \in S : j <= i

\* C5: after a call that returned, auditFix holds under a requirement id
\* exactly the last score-0 finding that maps to it, and holds nothing under
\* an id no score-0 finding maps to.
C5_LastZeroFindingWins ==
    (outcome = "returned") =>
        /\ DOMAIN auditFix \subseteq MappedReqIds
        /\ \A id \in MappedReqIds :
              LET Z == ZeroPositions(lighthouseJson, id)
              IN  IF Z = {}
                  THEN id \notin DOMAIN auditFix
                  ELSE /\ id \in DOMAIN auditFix
                       /\ auditFix[id] = lighthouseJson[Last(Z)].audit

C5_Witness ==
    /\ outcome = "returned"
    /\ \E id \in MappedReqIds :
          /\ Cardinality(ZeroPositions(lighthouseJson, id)) >= 2
          /\ auditFix[id] = lighthouseJson[Last(ZeroPositions(lighthouseJson, id))].audit

\* What the call in the current state produced.
ProducedNow == Produced(heap, mappedResults, auditFix, outcome)

\* What a call on the same checklist with other findings produces.
ProducedFor(findings) ==
    LET c == MapCall(inputAtCall.requirements, findings,
                     [directive |-> inputAtCall.directive,
                      requirements |-> [i \in 1..Len(inputAtCall.requirements) |-> i]])
    IN  Produced(c.heap, c.mappedResults, c.auditFix, c.outcome)

SelectEntries(findings, Keep(_)) == SelectSeq(findings, Keep)

InLookupTable(e) == e.key \in DOMAIN lighthouseToEAAMapping

\* C6: a call produces what the call on the findings restricted to the ids of
\* the lookup table produces, and findings under other ids raise no error.
C6_UnknownIdsIgnored ==
    (outcome # "idle" /\ ~modified) =>
        /\ ProducedNow = ProducedFor(SelectEntries(lighthouseJson, InLookupTable))
        /\ (\A i \in 1..Len(lighthouseJson) : ~InLookupTable(lighthouseJson[i]))
              => outcome = "returned"

\* The part of C6 the code keeps: ids that are neither in the lookup table
\* nor names of inherited properties are ignored.
C6_PlainUnknownIdsIgnored ==
    (outcome # "idle" /\ ~modified
       /\ \A i \in 1..Len(lighthouseJson) :
             LookupEaaIds(lighthouseJson[i].key).kind # "inherited") =>
        ProducedNow = ProducedFor(SelectEntries(lighthouseJson, InLookupTable))

WellFormed(e) == e.audit # NullAudit /\ e.audit.score # "undefined"

\* C7: every call completes without raising, and an entry that is null or
\* has no score contributes nothing: the call produces what it produces
\* without such entries. (Stated for findings maps without inherited
\* property names, which are C6's case.)
C7_MalformedFindingsTolerated ==
    (outcome # "idle" /\ ~modified
       /\ \A i \in 1..Len(lighthouseJson) :
             LookupEaaIds(lighthouseJson[i].key).kind # "inherited") =>
        /\ outcome = "returned"
        /\ ProducedNow = ProducedFor(SelectEntries(lighthouseJson, WellFormed))

\* C8: a call on the inputs of the remembered first call produces what the
\* first call produced, whatever calls were made in between.
C8_SameInputsSameOutputs ==
    (memo.set /\ lighthouseJson = memo.findings) =>
        ProducedNow = [outcome |-> memo.outcome, checklist |-> memo.checklist,
                       auditFix |-> memo.auditFix]

C8_Witness ==
    /\ memo.set /\ memo.between /\ lighthouseJson = memo.findings
    /\ outcome = "returned"
    /\ "A1.1" \in DOMAIN auditFix

----------------------------------------------------------------------------
(* Claims about the Scorer *)

NonPending(es) == SelectSeq(es, LAMBDA e : e.status # "pending")

ClaimedWeight(e) ==
    CASE e.criticality = "HIGH" -> 3 [] e.criticality = "MEDIUM" -> 2 [] e.criticality = "LOW" -> 1

\* Twice the status value: compliant and exempted 1, partially_compliant
\* 0.5, non_compliant 0.
ClaimedTwiceValue(e) ==
    CASE e.status \in {"compliant", "exempted"} -> 2
      [] e.status = "partially_compliant" -> 1
      [] e.status = "non_compliant" -> 0

RECURSIVE SumTwiceValueTimesWeight(_)
SumTwiceValueTimesWeight(es) ==
    IF es = <<>> THEN 0
    ELSE ClaimedTwiceValue(Head(es)) * ClaimedWeight(Head(es))
           + SumTwiceValueTimesWeight(Tail(es))

RECURSIVE SumWeight(_)
SumWeight(es) ==
    IF es = <<>> THEN 0 ELSE ClaimedWeight(Head(es)) + SumWeight(Tail(es))

ClaimedTwiceN(es) == SumTwiceValueTimesWeight(NonPending(es))
ClaimedD(es) == SumWeight(NonPending(es))

\* round(100 * N / D), halves rounding up, for N = twiceN / 2.
RoundedPercentage(twiceN, d) == (100 * twiceN + d) \div (2 * d)

\* C9: for a request with at least one entry that is not pending, the score
\* is round(100 * N / D), N the sum of status value times weight and D the
\* sum of weights over the entries that are not pending.
C9_ScoreIsRoundedWeightedAverage ==
    (scorePc = "done" /\ NonPending(entries) # <<>>) =>
        finalScore = RoundedPercentage(ClaimedTwiceN(entries), ClaimedD(entries))

\* C10: the score is an integer from 0 to 100, and it is 0 when the request
\* is empty or all its entries are pending.
C10_ScoreInRange ==
    (scorePc = "done") =>
        /\ finalScore \in 0..100
        /\ NonPending(entries) = <<>> => finalScore = 0

C10_Witness ==
    /\ scorePc = "done"
    /\ Len(entries) >= 2
    /\ NonPending(entries) = <<>>
    /\ finalScore = 0

----------------------------------------------------------------------------
(* The Report Assembler: process-results.run as it builds report.json from *)
(* the mapped checklist and findingsByRequirement (auditFix).              *)

MaxAssembleReqs == 2
MaxItems == 2

\* A property the JSON input does not carry reads as undefined.
Undefined == "<undefined>"

\* JS truthiness of an optional string.
Truthy(v) == v \notin {Undefined, ""}

\* v || fallback
OrElse(v, fallback) == IF Truthy(v) THEN v ELSE fallback

\* `${v}` in a template literal.
TemplateText(v) == IF v = Undefined THEN "undefined" ELSE v

\* auditFix?.[id] when auditFix has no such key.
NoFixData == [absent |-> TRUE]

\* Detail items of a finding: one with every field, one with none.
DetailItems ==
    { [nodeLabel |-> "img.logo", selector |-> "header > img",
       explanation |-> "Element has no alt attribute"],
      [nodeLabel |-> Undefined, selector |-> Undefined, explanation |-> Undefined] }

RECURSIVE ItemLists(_)
ItemLists(n) ==
    IF n = 0 THEN {<<>>}
    ELSE LET shorter == ItemLists(n - 1)
         IN  shorter \cup {Append(l, i) : l \in {x \in shorter : Len(x) = n - 1},
                                          i \in DetailItems}

\* details?.items: missing, or a list of items (possibly empty).
DetailsOf == {[hasItems |-> FALSE, items |-> <<>>]}
                 \cup {[hasItems |-> TRUE, items |-> l] : l \in ItemLists(MaxItems)}

\* Findings as auditFix may hold them, with and without title and description.
FixDatas ==
    { [absent |-> FALSE, title |-> t[1], description |-> t[2], details |-> d] :
        t \in { <<"Image elements do not have [alt] attributes",
                  "Informative elements should aim for short, descriptive alternate text.">>,
                <<Undefined, Undefined>> },
        d \in DetailsOf }

\* A finding recorded for a requirement that did not fail.
StrayFixData ==
    [absent |-> FALSE, title |-> "Background and foreground colors have a sufficient contrast ratio",
     description |-> Undefined, details |-> [hasItems |-> FALSE, items |-> <<>>]]

\* The checklist order of the template's first entries.
TemplateOrder == <<"A1.1", "A1.2", "A3.1">>

\* A requirement of a mapped checklist: the template's entry with the status
\* the Mapper gave it, or still pending under any criticality of the schema.
MappedRequirements(id) ==
    {[TemplateRequirement(id) EXCEPT !.status = st] : st \in Statuses \ {"pending"}}
        \cup {[TemplateRequirement(id) EXCEPT !.criticality = c] : c \in Criticalities}

Failing(req) == req.status \in {"partially_compliant", "non_compliant"}

\* A requirement with what auditFix holds under its id.
AssembleCases(id) ==
    {[req |-> r, fix |-> f] :
        r \in {x \in MappedRequirements(id) : Failing(x)}, f \in FixDatas \cup {NoFixData}}
    \cup
    {[req |-> r, fix |-> f] :
        r \in {x \in MappedRequirements(id) : ~Failing(x)}, f \in {NoFixData, StrayFixData}}

RECURSIVE CaseLists(_)
CaseLists(n) ==
    IF n = 0 THEN {<<>>}
    ELSE LET shorter == CaseLists(n - 1)
         IN  shorter \cup {Append(l, c) : l \in {x \in shorter : Len(x) = n - 1},
                                          c \in AssembleCases(TemplateOrder[n])}

\* args.complianceData = { mappedResults, auditFix } for a list of cases.
ComplianceDataOf(cases) ==
    [shape |-> "object", requirementsShape |-> "array",
     mappedResults |-> [directive |-> TemplateDirective,
                        requirements |-> [i \in 1..Len(cases) |-> cases[i].req]],
     auditFix |-> LET held == {i \in 1..Len(cases) : ~cases[i].fix.absent}
                  IN  [id \in {cases[i].req.requirement_id : i \in held} |->
                          (CHOOSE c \in Range(cases) : c.req.requirement_id = id).fix]]

\* auditFix?.[req.requirement_id]
FixDataOf(fix, id) == IF id \in DOMAIN fix THEN fix[id] ELSE NoFixData

\* mappedResultsData.requirements: the six fields the report keeps.
ReportRequirement(req) ==
    [requirement_id |-> req.requirement_id, description |-> req.description,
     category |-> req.category, criticality |-> req.criticality,
     legal_reference |-> req.legal_reference, status |-> req.status]

MappedResultsData(checklist) ==
    [directive |-> OrElse(checklist.directive, "Unknown Directive"),
     requirements |-> [i \in 1..Len(checklist.requirements) |->
                          ReportRequirement(checklist.requirements[i])]]

RequirementSummary(req) ==
    [requirement_id |-> req.requirement_id, description |-> req.description,
     category |-> req.category, criticality |-> req.criticality,
     legal_reference |-> req.legal_reference]

IssueDetails(fixData) ==
    IF ~fixData.absent
    THEN [issue |-> OrElse(fixData.title, "Issue not specified."),
          suggestion |-> OrElse(fixData.description, "No specific fix available.")]
    ELSE [issue |-> "Issue not specified.", suggestion |-> "No specific fix available."]

\* { ...requirementSummary, ...issueDetails }
FailingSummary(req, fixData) ==
    [requirement_id |-> req.requirement_id, description |-> req.description,
     category |-> req.category, criticality |-> req.criticality,
     legal_reference |-> req.legal_reference,
     issue |-> IssueDetails(fixData).issue,
     suggestion |-> IssueDetails(fixData).suggestion]

\* `${fixData.title} (${req.requirement_id})`
IssueLabel(fixData, req) ==
    TemplateText(fixData.title) \o " (" \o req.requirement_id \o ")"

ItemInsight(fixData, req, item) ==
    [issue |-> IssueLabel(fixData, req),
     failing_element |-> OrElse(item.nodeLabel, "Unknown Element"),
     selector |-> OrElse(item.selector, "No selector available"),
     explanation |-> OrElse(item.explanation, "No explanation provided."),
     suggestion |-> OrElse(fixData.description, "Follow the WCAG guidelines for compliance.")]

SyntheticInsight(fixData, req) ==
    [issue |-> IssueLabel(fixData, req),
     failing_element |-> "No specific elements identified.",
     selector |-> "N/A",
     explanation |-> "No specific failing elements provided.",
     suggestion |-> OrElse(fixData.description,
                           "Follow accessibility guidelines for best practices.")]

\* fixData?.details?.items && fixData.details.items.length > 0
HasItems(fixData) ==
    /\ ~fixData.absent
    /\ fixData.details.hasItems
    /\ Len(fixData.details.items) > 0

\* The insights pushed for a failing requirement whose fixData can be read.
FirstItemOnly(fixData, req) ==
    IF HasItems(fixData)
    THEN <<ItemInsight(fixData, req, fixData.details.items[1])>>
    ELSE <<SyntheticInsight(fixData, req)>>

InsightsOf(fixData, req) ==
    IF HasItems(fixData)
    THEN [k \in 1..Len(fixData.details.items) |->
             ItemInsight(fixData, req, fixData.details.items[k])]
    ELSE <<SyntheticInsight(fixData, req)>>

\* The pending branch of the callback.
PendingIgnoringCriticality(sum, req) ==
    [sum EXCEPT !.pending_high_criticality = Append(@, req.requirement_id)]

PushPending(sum, req) ==
    IF req.criticality = "HIGH"
    THEN [sum EXCEPT !.pending_high_criticality = Append(@, req.requirement_id)]
    ELSE IF req.criticality = "MEDIUM"
    THEN [sum EXCEPT !.pending_medium_criticality = Append(@, req.requirement_id)]
    ELSE sum

\* One invocation of the forEach callback on the state of the loop: the
\* summary and insights so far, and whether a callback has thrown.
AssembleOne(st, req, fix) ==
    LET fixData == FixDataOf(fix, req.requirement_id)
    IN  IF req.status = "compliant"
        THEN [st EXCEPT !.summary.compliant = Append(@, RequirementSummary(req))]
        ELSE IF Failing(req)
        THEN LET pushed == [st EXCEPT !.summary.partially_compliant =
                                          Append(@, FailingSummary(req, fixData))]
             IN  IF fixData.absent
                 THEN \* fixData.title of undefined: TypeError
                      [pushed EXCEPT !.threw = TRUE]
                 ELSE [pushed EXCEPT !.insights = @ \o InsightsOf(fixData, req)]
        ELSE IF req.status = "pending"
        THEN [st EXCEPT !.summary = PushPending(@, req)]
        ELSE st

RECURSIVE ForEachRequirement(_, _, _, _)
ForEachRequirement(st, reqs, i, fix) ==
    IF st.threw \/ i > Len(reqs) THEN st
    ELSE ForEachRequirement(AssembleOne(st, reqs[i], fix), reqs, i + 1, fix)

\* process-results.run on well-shaped compliance data: the report uploaded
\* as report.json, or the error thrown out of the loop.
Assembled(data) ==
    LET st == ForEachRequirement([summary |-> NoSummary, insights |-> <<>>, threw |-> FALSE],
                                 data.mappedResults.requirements, 1, data.auditFix)
    IN  IF st.threw
        THEN [NoReport EXCEPT !.outcome = "threw"]
        ELSE [outcome |-> "uploaded",
              returned |-> "Task complete, file named: report.json",
              processCalls |-> 0,
              prompt |-> <<>>,
              mappedResults |-> MappedResultsData(data.mappedResults),
              summary |-> st.summary,
              actionable_insights |-> st.insights]

AssembleInit ==
    /\ MapperIdle
    /\ ScorerIdle
    /\ ComparisonIdle
    /\ TasksIdle
    /\ \E cases \in CaseLists(MaxAssembleReqs) : complianceData = ComplianceDataOf(cases)
    /\ report = NoReport

Assemble ==
    /\ report.outcome = "idle"
    /\ report' = Assembled(complianceData)
    /\ UNCHANGED <<complianceData, comparison, tasks, mapperVars, scorerVars>>

AssembleNext == Assemble

AssembleSpec == AssembleInit /\ [][AssembleNext]_vars

----------------------------------------------------------------------------
(* Input shapes: run-comparison and process-results.run (the report step   *)
(* in use) on a checklist structure with and without a requirements array. *)

\* What the requirements field of a parsed JSON structure can be.
RequirementsShapes == {"array", "missing", "null", "string", "object"}

\* regulations.json as fetched.
RegulationsInputs ==
    {[shape |-> "array", requirements |-> l] : l \in RepeatChecklists}
        \cup {[shape |-> sh, requirements |-> <<>>] : sh \in RequirementsShapes \ {"array"}}

\* mapLighthouseToEAA on a structure whose requirements field has the shape
\* given: the loop over the findings runs, and requirements.forEach of
\* anything but an array is a TypeError.
MapIgnoringShape(h, findings, g, shape) == MapCall(h, findings, g)

MapShaped(h, findings, g, shape) ==
    IF shape = "array" THEN MapCall(h, findings, g)
    ELSE LET st == ForEachAudit([statusCounts |-> NewStatusCounts,
                                 auditFix |-> NewAuditFix,
                                 threw |-> FALSE], findings)
         IN  [heap |-> h, statusCounts |-> st.statusCounts, auditFix |-> st.auditFix,
              outcome |-> "threw", mappedResults |-> NoChecklist]

\* run-comparison.run with both files found and fetched.
Compared(regs, findings) ==
    LET g == [directive |-> TemplateDirective,
              requirements |-> [i \in 1..Len(regs.requirements) |-> i]]
        c == MapShaped(regs.requirements, findings, g, regs.shape)
    IN  [pc |-> "done", shape |-> regs.shape, regulations |-> regs.requirements,
         audit |-> findings,
         error |-> IF c.outcome = "returned" THEN ""
                   ELSE "Failed to compare audit results with regulations.",
         returned |-> c.outcome = "returned",
         output |-> IF c.outcome = "returned"
                    THEN [mappedResults |-> Deref(c.heap, c.mappedResults),
                          auditFix |-> c.auditFix]
                    ELSE NoOutput]

RunComparison ==
    /\ comparison.pc = "idle"
    /\ \E regs \in RegulationsInputs, findings \in FindingsMaps(FindingEntries, MaxRepeatFindings) :
          comparison' = Compared(regs, findings)
    /\ UNCHANGED <<complianceData, report, tasks, mapperVars, scorerVars>>

\* args.complianceData: well-shaped data on at most one requirement, and the
\* shapes without a requirements array.
ComplianceInputs ==
    {ComplianceDataOf(l) :
        l \in {x \in CaseLists(1) :
                  Len(x) = 1 => \/ x[1].fix.absent
                                \/ /\ x[1].fix.details.hasItems
                                   /\ Len(x[1].fix.details.items) = 1}}
        \cup {[NoComplianceData EXCEPT !.requirementsShape = sh] :
                 sh \in RequirementsShapes \ {"array"}}
        \cup {[NoComplianceData EXCEPT !.shape = "null"]}

\* What agent.process resolves to: no choices, or a last choice with or
\* without content.
ModelResponses ==
    { [choices |-> 0, content |-> Undefined],
      [choices |-> 1, content |-> Undefined],
      [choices |-> 1, content |-> "## Accessibility report"] }

\* One section of userPrompt.
PromptSection(req, fixData) ==
    [requirement_id |-> req.requirement_id, category |-> req.category,
     criticality |-> req.criticality, status |-> req.status,
     legal_reference |-> req.legal_reference,
     issue |-> IF fixData.absent THEN "Unknown issue"
               ELSE OrElse(fixData.title, "Unknown issue"),
     description |-> IF fixData.absent THEN "No description available."
                     ELSE OrElse(fixData.description, "No description provided."),
     failingElements |->
        IF HasItems(fixData)
        THEN [k \in 1..Len(fixData.details.items) |->
                 [element |-> OrElse(fixData.details.items[k].nodeLabel, "Unknown"),
                  selector |-> OrElse(fixData.details.items[k].selector, "N/A"),
                  explanation |-> OrElse(fixData.details.items[k].explanation,
                                         "No explanation provided.")]]
        ELSE <<>>]

UserPrompt(data) ==
    [i \in 1..Len(data.mappedResults.requirements) |->
        PromptSection(data.mappedResults.requirements[i],
                      FixDataOf(data.auditFix, data.mappedResults.requirements[i].requirement_id))]

\* process-results.run
Processed(data, response) ==
    IF data.shape # "object"
    THEN [NoReport EXCEPT !.outcome = "returned",
                          !.returned = "Error: Invalid compliance data provided."]
    ELSE IF data.requirementsShape # "array"
    THEN [NoReport EXCEPT !.outcome = "returned",
                          !.returned = "Error: 'requirements' field is missing or malformed."]
    ELSE [NoReport EXCEPT
             !.outcome = "returned",
             !.processCalls = 1,
             !.prompt = UserPrompt(data),
             !.returned =
                 IF response.choices > 0
                 THEN "{\"report\":\""
                         \o OrElse(response.content, "Processing failed. No response generated.")
                         \o "\"}"
                 ELSE "Processing failed. No response generated."]

ProcessResults ==
    /\ report.outcome = "idle"
    /\ \E data \in ComplianceInputs, response \in ModelResponses :
          /\ complianceData' = data
          /\ report' = Processed(data, response)
    /\ UNCHANGED <<comparison, tasks, mapperVars, scorerVars>>

ShapeInit ==
    /\ MapperIdle
    /\ ScorerIdle
    /\ ReportIdle
    /\ ComparisonIdle
    /\ TasksIdle

ShapeNext == RunComparison \/ ProcessResults

ShapeSpec == ShapeInit /\ [][ShapeNext]_vars

----------------------------------------------------------------------------
(* create_task_sequence.run, one step per await.                           *)

\* A JS number: an integer or NaN.
Number(n) == [nan |-> FALSE, value |-> n]
NaN == [nan |-> TRUE, value |-> 0]

\* !x for a number
Falsy(x) == x.nan \/ x.value = 0

DigitValue ==
    [c \in {"0", "1", "2", "3", "4", "5", "6", "7", "8", "9"} |->
        CASE c = "0" -> 0 [] c = "1" -> 1 [] c = "2" -> 2 [] c = "3" -> 3 [] c = "4" -> 4
          [] c = "5" -> 5 [] c = "6" -> 6 [] c = "7" -> 7 [] c = "8" -> 8 [] c = "9" -> 9]

\* The value of a sequence of digit characters.
DecimalValue(digits) ==
    LET RECURSIVE Value(_)
        Value(k) == IF k = 0 THEN 0 ELSE 10 * Value(k - 1) + DigitValue[digits[k]]
    IN  Value(Len(digits))

\* parseInt of a string given as its characters: an optional sign, then
\* the longest run of digits; NaN when there is no digit.
ParseInt(chars) ==
    LET signed == chars # <<>> /\ chars[1] \in {"-", "+"}
        rest   == IF signed THEN Tail(chars) ELSE chars
        n      == Cardinality({k \in 1..Len(rest) :
                                  \A j \in 1..k : rest[j] \in DOMAIN DigitValue})
        v      == DecimalValue(SubSeq(rest, 1, n))
    IN  IF n = 0 THEN NaN
        ELSE IF signed /\ chars[1] = "-" THEN Number(0 - v) ELSE Number(v)

\* process.env.WORKSPACE_ID: unset, or a text.
EnvValues ==
    {[set |-> FALSE, text |-> <<>>]}
        \cup {[set |-> TRUE, text |-> t] :
                 t \in {<<>>, <<"0">>, <<"1", "2">>, <<"a", "b", "c">>, <<"7", "x">>, <<"-", "3">>}}

\* action?.workspace?.id: 0 stands for a missing id.
ActionWorkspaceIds == {0, 5}

\* action?.workspace?.id || parseInt(process.env.WORKSPACE_ID || '0')
WorkspaceIdOf(actionId, env) ==
    IF actionId # 0 THEN Number(actionId)
    ELSE ParseInt(IF env.set /\ env.text # <<>> THEN env.text ELSE <<"0">>)

\* The capability each task of the sequence names, in the order of the code.
TaskSequence == <<"fetch-regulations", "run-comparison", "calculate-score", "process-results">>

\* The id of a created task; 0 stands for any falsy id.
TaskIds == {0, 101, 102}

\* What agent.createTask rejects with.
CreateErrors == {"Request failed with status code 500"}

\* dependencies: previous.id ? [previous.id] : []
NoDependencies(created) == <<>>

DependenciesOn(created) ==
    IF created = <<>> THEN <<>>
    ELSE IF created[Len(created)].id # 0 THEN <<created[Len(created)].id>>
    ELSE <<>>

TaskInit ==
    /\ MapperIdle
    /\ ScorerIdle
    /\ ReportIdle
    /\ ComparisonIdle
    /\ TasksIdle

\* run up to the first await: the workspace id is read and validated.
StartSequence ==
    /\ tasks.pc = "idle"
    /\ \E actionId \in ActionWorkspaceIds, env \in EnvValues :
          LET workspaceId == WorkspaceIdOf(actionId, env)
          IN  tasks' = IF Falsy(workspaceId)
                       THEN [tasks EXCEPT
                               !.pc = "failed",
                               !.workspaceId = workspaceId,
                               !.error = "Invalid WORKSPACE_ID. Please check the environment variables."]
                       ELSE [tasks EXCEPT !.pc = "creating", !.workspaceId = workspaceId]
    /\ UNCHANGED <<complianceData, report, comparison, mapperVars, scorerVars>>

\* await safeCreateTask(...) settles: the next task of the sequence was
\* created, or the rejection is rethrown out of run. After the fourth task
\* run returns its id.
CreateTask ==
    /\ tasks.pc = "creating"
    /\ \/ \E id \in TaskIds :
            LET task == [capability |-> TaskSequence[Len(tasks.created) + 1],
                         workspaceId |-> tasks.workspaceId.value,
                         dependencies |-> DependenciesOn(tasks.created),
                         id |-> id]
                all  == Append(tasks.created, task)
            IN  tasks' = IF Len(all) = Len(TaskSequence)
                         THEN [tasks EXCEPT !.created = all, !.pc = "returned",
                                            !.returned = ToString(id)]
                         ELSE [tasks EXCEPT !.created = all]
       \/ \E err \in CreateErrors :
            tasks' = [tasks EXCEPT !.pc = "failed", !.error = err]
    /\ UNCHANGED <<complianceData, report, comparison, mapperVars, scorerVars>>

TaskNext == StartSequence \/ CreateTask

TaskSpec == TaskInit /\ [][TaskNext]_vars

----------------------------------------------------------------------------
(* Claims about the Report Assembler *)

AssembledReqs == complianceData.mappedResults.requirements

\* Requirement i of the checklist failed and auditFix holds nothing under
\* its id.
FailingWithoutFinding(i) ==
    /\ Failing(AssembledReqs[i])
    /\ AssembledReqs[i].requirement_id \notin DOMAIN complianceData.auditFix

\* The detail items recorded for requirement i (none when there is no
\* finding, no details, or an empty list).
ItemsFor(i) ==
    LET id == AssembledReqs[i].requirement_id
    IN  IF id \in DOMAIN complianceData.auditFix
           /\ complianceData.auditFix[id].details.hasItems
        THEN complianceData.auditFix[id].details.items
        ELSE <<>>

\* How many insight records the report is to hold for requirement i.
ExpectedInsights(i) ==
    IF ~Failing(AssembledReqs[i]) THEN 0
    ELSE IF Len(ItemsFor(i)) >= 1 THEN Len(ItemsFor(i)) ELSE 1

RECURSIVE InsightsBefore(_)
InsightsBefore(i) ==
    IF i <= 1 THEN 0 ELSE InsightsBefore(i - 1) + ExpectedInsights(i - 1)

\* C11: once process-results has run on a checklist with a failing
\* requirement that has no entry in findingsByRequirement, the report was
\* produced without an error, its summary holds the entry of that requirement
\* with issue "Issue not specified." and suggestion "No specific fix
\* available.", and the insights hold one synthetic record (selector "N/A")
\* for every failing requirement without detail items.
C11_MissingFindingDegrades ==
    (/\ report.outcome \in {"uploaded", "threw"}
     /\ \E i \in 1..Len(AssembledReqs) : FailingWithoutFinding(i))
    =>
    /\ report.outcome = "uploaded"
    /\ \A i \in 1..Len(AssembledReqs) :
          FailingWithoutFinding(i) =>
             \E k \in 1..Len(report.summary.partially_compliant) :
                LET e == report.summary.partially_compliant[k]
                IN  /\ e.requirement_id = AssembledReqs[i].requirement_id
                    /\ e.issue = "Issue not specified."
                    /\ e.suggestion = "No specific fix available."
    /\ Cardinality({k \in 1..Len(report.actionable_insights) :
                       report.actionable_insights[k].selector = "N/A"})
          = Cardinality({i \in 1..Len(AssembledReqs) :
                           Failing(AssembledReqs[i]) /\ Len(ItemsFor(i)) = 0})

\* The five descriptive fields of the entries of a list, in order.
CoreOf(list) ==
    [i \in 1..Len(list) |->
        <<list[i].requirement_id, list[i].description, list[i].category,
          list[i].criticality, list[i].legal_reference>>]

IdsOf(list) == [i \in 1..Len(list) |-> list[i].requirement_id]

IsCompliant(r) == r.status = "compliant"
IsPendingHigh(r) == r.status = "pending" /\ r.criticality = "HIGH"
IsPendingMedium(r) == r.status = "pending" /\ r.criticality = "MEDIUM"

\* C12: in a report that was produced, summary.compliant is the checklist
\* filtered to status compliant, summary.partially_compliant the checklist
\* filtered to partially_compliant or non_compliant, pending_high_criticality
\* and pending_medium_criticality the ids of the pending HIGH and pending
\* MEDIUM requirements, each in checklist order; exempted and pending LOW
\* requirements are in no bucket, and no id is in two buckets.
C12_BucketsAreOrderedFilters ==
    report.outcome = "uploaded" =>
       LET sum == report.summary
           bucketIds == << Range(IdsOf(sum.compliant)),
                           Range(IdsOf(sum.partially_compliant)),
                           Range(sum.pending_high_criticality),
                           Range(sum.pending_medium_criticality) >>
       IN  /\ CoreOf(sum.compliant) = CoreOf(SelectSeq(AssembledReqs, IsCompliant))
           /\ CoreOf(sum.partially_compliant) = CoreOf(SelectSeq(AssembledReqs, Failing))
           /\ sum.pending_high_criticality = IdsOf(SelectSeq(AssembledReqs, IsPendingHigh))
           /\ sum.pending_medium_criticality = IdsOf(SelectSeq(AssembledReqs, IsPendingMedium))
           /\ \A a, b \in 1..4 : a # b => bucketIds[a] \cap bucketIds[b] = {}
           /\ \A i \in 1..Len(AssembledReqs) :
                 (\/ AssembledReqs[i].status = "exempted"
                  \/ /\ AssembledReqs[i].status = "pending"
                     /\ AssembledReqs[i].criticality = "LOW")
                 => \A a \in 1..4 : AssembledReqs[i].requirement_id \notin bucketIds[a]

\* A report on two failing requirements: the bucket holds both, in order.
C12_Witness ==
    /\ report.outcome = "uploaded"
    /\ Len(report.summary.partially_compliant) = 2
    /\ report.summary.partially_compliant[1].requirement_id = "A1.1"

\* The label of an insight: the finding's title as a template literal renders
\* it, then the requirement id in parentheses.
ClaimedLabel(title, id) ==
    IF title = Undefined THEN "undefined (" \o id \o ")"
    ELSE title \o " (" \o id \o ")"

\* C13: in a report that was produced, the insights are, requirement by
\* requirement in checklist order: for a failing requirement whose finding
\* has n >= 1 detail items, n records, one per item in item order, each
\* labelled "{finding title} ({requirement id})"; for a failing requirement
\* whose finding has no detail items, one synthetic record; nothing for a
\* requirement of any other status.
C13_InsightsPerDetailItem ==
    report.outcome = "uploaded" =>
       /\ Len(report.actionable_insights) = InsightsBefore(Len(AssembledReqs) + 1)
       /\ \A i \in 1..Len(AssembledReqs) :
             Failing(AssembledReqs[i]) =>
                LET id == AssembledReqs[i].requirement_id
                    title == complianceData.auditFix[id].title
                    items == ItemsFor(i)
                    at(k) == report.actionable_insights[InsightsBefore(i) + k]
                IN  IF Len(items) >= 1
                    THEN \A k \in 1..Len(items) :
                            /\ at(k).issue = ClaimedLabel(title, id)
                            /\ at(k).failing_element =
                                  (IF items[k].nodeLabel = Undefined
                                   THEN "Unknown Element" ELSE items[k].nodeLabel)
                            /\ at(k).selector =
                                  (IF items[k].selector = Undefined
                                   THEN "No selector available" ELSE items[k].selector)
                    ELSE /\ at(1).selector = "N/A"
                         /\ at(1).failing_element = "No specific elements identified."

\* A report on a failing requirement with two different detail items next to
\* a compliant requirement that has a finding of its own.
C13_Witness ==
    /\ report.outcome = "uploaded"
    /\ Len(AssembledReqs) = 2
    /\ Failing(AssembledReqs[1])
    /\ Len(ItemsFor(1)) = 2
    /\ ItemsFor(1)[1] # ItemsFor(1)[2]
    /\ AssembledReqs[2].status = "compliant"
    /\ AssembledReqs[2].requirement_id \in DOMAIN complianceData.auditFix
    /\ Len(report.actionable_insights) = 2

----------------------------------------------------------------------------
(* Claims about input shapes *)

ShapeErrors == {"Error: Invalid compliance data provided.",
                "Error: 'requirements' field is missing or malformed."}

\* C14: run-comparison on a checklist structure without a requirements array
\* ends with an error that carries a message and returns neither a mapped
\* checklist nor findingsByRequirement; process-results on compliance data
\* without a requirements array returns an error message, builds no prompt
\* and makes no call to the model.
C14_MissingRequirementsRejected ==
    /\ (comparison.pc = "done" /\ comparison.shape # "array") =>
          /\ comparison.error # ""
          /\ ~comparison.returned
          /\ comparison.output = NoOutput
    /\ (/\ report.outcome = "returned"
        /\ \/ complianceData.shape # "object"
           \/ complianceData.requirementsShape # "array") =>
          /\ report.returned \in ShapeErrors
          /\ report.processCalls = 0
          /\ report.prompt = <<>>

\* Both steps have run on a structure without the array, run-comparison on
\* findings that include a failed audit.
C14_Witness ==
    /\ comparison.pc = "done"
    /\ comparison.shape = "missing"
    /\ \E i \in 1..Len(comparison.audit) :
          /\ comparison.audit[i].key \in DOMAIN lighthouseToEAAMapping
          /\ comparison.audit[i].audit # NullAudit
          /\ comparison.audit[i].audit.score = "0"
    /\ comparison.error # ""
    /\ report.outcome = "returned"
    /\ complianceData.requirementsShape = "missing"
    /\ report.processCalls = 0

----------------------------------------------------------------------------
(* Claims about the Mapper's two outputs taken together *)

AllPendingOnInput ==
    \A i \in 1..Len(inputAtCall.requirements) :
        inputAtCall.requirements[i].status = "pending"

\* C15: after a call that returned on a checklist whose requirements were
\* all pending, a requirement of the returned checklist has status
\* non_compliant or partially_compliant exactly when findingsByRequirement
\* has an entry under its id, and that entry is a finding with score 0;
\* compliant, exempted and pending requirements have no entry.
C15_FailingIffFindingRecorded ==
    (outcome = "returned" /\ ~modified /\ AllPendingOnInput) =>
        \A i \in 1..Len(Returned) :
            LET id == Returned[i].requirement_id
            IN  /\ Returned[i].status \in {"non_compliant", "partially_compliant"}
                      <=> id \in DOMAIN auditFix
                /\ id \in DOMAIN auditFix =>
                      /\ auditFix[id] # NullAudit
                      /\ auditFix[id].score = "0"
                /\ Returned[i].status \in {"compliant", "exempted", "pending"}
                      => id \notin DOMAIN auditFix

\* A returned checklist with a failed requirement that has an entry next to
\* a compliant requirement that has none.
C15_Witness ==
    /\ outcome = "returned"
    /\ ~modified
    /\ AllPendingOnInput
    /\ \E i, j \in 1..Len(Returned) :
          /\ Returned[i].status = "non_compliant"
          /\ Returned[i].requirement_id \in DOMAIN auditFix
          /\ auditFix[Returned[i].requirement_id].score = "0"
          /\ Returned[j].status = "compliant"
          /\ Returned[j].requirement_id \notin DOMAIN auditFix

----------------------------------------------------------------------------
(* Claims about create_task_sequence *)

\* The tasks created so far are the first tasks of the sequence, in order.
InSequenceOrder ==
    /\ Len(tasks.created) <= Len(TaskSequence)
    /\ \A k \in 1..Len(tasks.created) : tasks.created[k].capability = TaskSequence[k]

\* With an invalid workspace id there is an error and no task.
InvalidWorkspaceCreatesNothing ==
    (tasks.pc # "idle" /\ Falsy(tasks.workspaceId)) =>
        /\ tasks.pc = "failed"
        /\ tasks.error # ""
        /\ tasks.created = <<>>

\* A step creates at most the one next task, after every earlier one; after
\* a failure nothing is created and the error stays.
OneAtATimeUntilFailure ==
    /\ \/ tasks'.created = tasks.created
       \/ /\ Len(tasks'.created) = Len(tasks.created) + 1
          /\ SubSeq(tasks'.created, 1, Len(tasks.created)) = tasks.created
    /\ tasks.pc = "failed" => tasks' = tasks
    /\ (tasks.pc = "creating" /\ tasks'.pc = "failed") =>
          tasks'.error \in CreateErrors /\ tasks'.created = tasks.created

\* C16 as stated: the four tasks are created in the order fetch-regulations,
\* run-comparison, calculate-score, process-results, one at a time, every
\* task after the first listing the previous task's id as its dependency;
\* an invalid workspace id creates no task, and a failed creation ends the
\* sequence with its error.
C16_SequenceWithDependencies ==
    /\ [](/\ InSequenceOrder
          /\ InvalidWorkspaceCreatesNothing
          /\ \A k \in 2..Len(tasks.created) :
                tasks.created[k].dependencies = <<tasks.created[k - 1].id>>)
    /\ [][OneAtATimeUntilFailure]_vars

\* C16 amended: as above, but a task lists the previous task's id as its
\* dependency only when the previous task came back with a truthy id, and no
\* dependency otherwise.
C16_SequenceWithDependenciesOnTruthyIds ==
    /\ [](/\ InSequenceOrder
          /\ InvalidWorkspaceCreatesNothing
          /\ \A k \in 2..Len(tasks.created) :
                tasks.created[k].dependencies =
                    IF tasks.created[k - 1].id # 0
                    THEN <<tasks.created[k - 1].id>> ELSE <<>>)
    /\ [][OneAtATimeUntilFailure]_vars

\* All four tasks were created, the second depending on the first, the
\* third on nothing because the second came back without an id.
C16_Witness ==
    /\ tasks.pc = "returned"
    /\ Len(tasks.created) = 4
    /\ tasks.created[2].dependencies = <<tasks.created[1].id>>
    /\ tasks.created[2].id = 0
    /\ tasks.created[3].dependencies = <<>>
    /\ tasks.created[4].dependencies = <<tasks.created[3].id>>

====
